---- MODULE Spec2Model ----
(***************************************************************************)
(* The User model (models/User.js) and the authentication routes           *)
(* (routes/auth.js, given in the connection guide) of the CRUDPract        *)
(* server.                                                                 *)
(*                                                                         *)
(* The User schema declares one path, `name` (String, required, trim).     *)
(* Mongoose schemas are strict: a field given to `new User({...})` that    *)
(* the schema does not declare (email, password, role, organization) is    *)
(* dropped, so a stored document is {_id, name}.  The schema declares no   *)
(* methods, so a document has no comparePassword.                          *)
(*                                                                         *)
(* Two specifications:                                                     *)
(*   SpecV  callers that build a User document from a raw name and         *)
(*          validate it (the schema's setter and validator alone);         *)
(*   Spec   clients that send register and login requests to the routes,   *)
(*          interleaved at the handlers' awaits.                           *)
(***************************************************************************)
EXTENDS Naturals, Sequences, FiniteSets

\* ------------------------------------------------------------------ bounds

\* Longest raw name a validator caller passes (SpecV).
MaxLen == 4

\* Most documents the users collection holds (Spec).
MaxUsers == 2

\* ------------------------------------------------------------------ values

\* Characters of a name: two white space characters and a letter.
Chars == {" ", "\t", "a"}

\* The characters String.prototype.trim removes.
WhiteSpace == {" ", "\t"}

\* A JavaScript value of a request body field: undefined (the field is
\* omitted), null, or a string (a sequence of characters).
Undefined == [t |-> "undefined"]
Null == [t |-> "null"]
Str(s) == [t |-> "string", v |-> s]

IsString(x) == x.t = "string"

StringsUpTo(n) == UNION {[1..k -> Chars] : k \in 0..n}

\* Raw names of the validator callers.
RawNames == {Undefined, Null} \cup {Str(s) : s \in StringsUpTo(MaxLen)}

\* ------------------------------------------------------- the schema's rules

RECURSIVE trimStart(_)
trimStart(s) ==
    IF s # <<>> /\ Head(s) \in WhiteSpace THEN trimStart(Tail(s)) ELSE s

RECURSIVE trimEnd(_)
trimEnd(s) ==
    IF s # <<>> /\ s[Len(s)] \in WhiteSpace
    THEN trimEnd(SubSeq(s, 1, Len(s) - 1))
    ELSE s

\* A trim that forgets the trailing white space.
trimLeadingOnly(s) == trimStart(s)

\* A trim that forgets the leading white space.
trimTrailingOnly(s) == trimEnd(s)

\* String.prototype.trim, which `trim: true` applies.
trim(s) == trimEnd(trimStart(s))

\* The setter without `trim: true`.
applySettersNoTrim(v) == v

\* The setters of the path `name`, run when a document is built or the path
\* is set: `trim: true` trims a string and leaves null and undefined alone.
applySetters(v) == IF IsString(v) THEN Str(trim(v.v)) ELSE v

\* A required check that only asks for the path to be defined.
checkRequiredDefinedOnly(v) == v # Undefined

\* The required validator of a String path: a string of non-zero length.
checkRequired(v) == IsString(v) /\ Len(v.v) > 0

\* The error `required: true` raises for the path `name` (the
\* MissingRequiredField("name") of the specification).
RequiredError == [name |-> "ValidationError", path |-> "name", kind |-> "required"]

NoError == [name |-> "none"]

\* A save that runs no validator.
validateSkipped(doc) == NoError

\* doc.validate(): the validators of the schema's paths on the document.
validate(doc) == IF checkRequired(doc.name) THEN NoError ELSE RequiredError

\* A schema that gives a blank name a default.
NewUserDefaulting(name) ==
    [name |-> IF checkRequired(applySetters(name))
              THEN applySetters(name)
              ELSE Str(<<"a">>)]

\* new User({name, ...}): the schema's paths, through their setters.
NewUser(name) == [name |-> applySetters(name)]


\* ------------------------------------------------------------------- state

\* Callers that build and validate a document (SpecV).
Callers == {"v1", "v2"}

\* Clients of the authentication routes (Spec).
Clients == {"c1", "c2"}

\* Names a register request carries: omitted, null, empty, white space only,
\* padded, and plain (with white space inside).
NameInputs ==
    { Undefined, Null, Str(<<>>), Str(<<" ", "\t">>),
      Str(<<" ", "a", "\t">>), Str(<<"a", " ", "a">>) }

Emails == {"e1", "e2"}

Passwords == {"p1", "p2"}

NoDoc == [none |-> TRUE]
NoReq == [kind |-> "none"]
NoResp == [status |-> 0]
NoOut == [none |-> TRUE]

VARIABLES
    strictQuery,  \* Mongoose's strictQuery option, which the installed version sets
    users,        \* the users collection, in insertion order
    pc,           \* per client: "idle", "find", "save", "done"
    req,          \* per client: the request body being handled
    user,         \* per client: the handler's `user` document before save
    resp,         \* per client: the response sent
    vpc,          \* per caller: "idle", "built", "returned"
    vin,          \* per caller: the raw name passed
    vdoc,         \* per caller: the document built from it
    vout          \* per caller: the outcome of validation

handlerVars == <<pc, req, user, resp>>
callerVars == <<vpc, vin, vdoc, vout>>
vars == <<strictQuery, users, pc, req, user, resp, vpc, vin, vdoc, vout>>

\* The state the handlers and callers start in.
Quiet ==
    /\ pc = [c \in Clients |-> "idle"]
    /\ req = [c \in Clients |-> NoReq]
    /\ user = [c \in Clients |-> NoDoc]
    /\ resp = [c \in Clients |-> NoResp]
    /\ vpc = [c \in Callers |-> "idle"]
    /\ vin = [c \in Callers |-> Undefined]
    /\ vdoc = [c \in Callers |-> NoDoc]
    /\ vout = [c \in Callers |-> NoOut]

\* The server starts on an empty collection; the Mongoose version installed
\* (`npm install mongoose`, no version) fixes strictQuery: true by default in
\* Mongoose 6, false in Mongoose 5, 7 and 8.
Init ==
    /\ strictQuery \in BOOLEAN
    /\ users = <<>>
    /\ Quiet

\* A collection the validator callers may run beside: empty, or one user.
\* No query is made, so strictQuery is left at the current default.
InitV ==
    /\ strictQuery = FALSE
    /\ users \in {<<>>, <<[_id |-> 1, name |-> Str(<<"a">>)]>>}
    /\ Quiet

\* -------------------------------------------------- building and validating

\* A caller builds a document from a raw name: the setters run here.  Each
\* caller makes one call; the two calls interleave in every order.
VCall(c, raw) ==
    /\ vpc[c] = "idle"
    /\ vpc' = [vpc EXCEPT ![c] = "built"]
    /\ vin' = [vin EXCEPT ![c] = raw]
    /\ vdoc' = [vdoc EXCEPT ![c] = NewUser(raw)]
    /\ vout' = [vout EXCEPT ![c] = NoOut]
    /\ UNCHANGED <<strictQuery, users, handlerVars>>

\* The outcome of doc.validate(): the normalized name, or the error.
Outcome(doc) ==
    IF validate(doc) = NoError
    THEN [ok |-> TRUE, name |-> doc.name]
    ELSE [ok |-> FALSE, error |-> validate(doc)]

\* A validation that also inserts the document it accepts.
VValidateAndInsert(c) ==
    /\ vpc[c] = "built"
    /\ vpc' = [vpc EXCEPT ![c] = "returned"]
    /\ vout' = [vout EXCEPT ![c] = Outcome(vdoc[c])]
    /\ users' = IF validate(vdoc[c]) = NoError /\ Len(users) < MaxUsers
                THEN Append(users, [_id |-> Len(users) + 1, name |-> vdoc[c].name])
                ELSE users
    /\ UNCHANGED <<strictQuery, handlerVars, vin, vdoc>>

\* The caller validates the document it built: the validators run here.
VValidate(c) ==
    /\ vpc[c] = "built"
    /\ vpc' = [vpc EXCEPT ![c] = "returned"]
    /\ vout' = [vout EXCEPT ![c] = Outcome(vdoc[c])]
    /\ UNCHANGED <<strictQuery, users, handlerVars, vin, vdoc>>

NextV ==
    \/ \E c \in Callers, raw \in RawNames : VCall(c, raw)
    \/ \E c \in Callers : VValidate(c)

SpecV == InitV /\ [][NextV]_vars

\* -------------------------------------------------------------- the routes

\* Whether a stored document matches the filter {email}: its email field
\* equals the value asked for.  Stored documents carry the schema's paths.
MatchesEmail(doc, email) == "email" \in DOMAIN doc /\ doc.email = email

\* User.findOne({email}).  Under strictQuery the filter loses the path the
\* schema does not declare and becomes {}, which the first document matches;
\* without it the filter reaches the collection as given.
findOne(email) ==
    LET hits == IF strictQuery
                THEN 1..Len(users)
                ELSE {i \in 1..Len(users) : MatchesEmail(users[i], email)}
    IN  IF hits = {}
        THEN NoDoc
        ELSE users[CHOOSE i \in hits : \A j \in hits : i <= j]

\* jwt.sign({userId: user._id}, ...)
sign(id) == [userId |-> id]

ServerError(message) ==
    [status |-> 500, message |-> "Server error", error |-> message]

\* POST /register arrives: the handler reads the body and awaits findOne.
\* role and organization are passed on to new User and dropped there.
RegisterRequest(c, name, email, password) ==
    /\ pc[c] \in {"idle", "done"}
    /\ pc' = [pc EXCEPT ![c] = "find"]
    /\ req' = [req EXCEPT ![c] =
                 [kind |-> "register", name |-> name, email |-> email,
                  password |-> password]]
    /\ user' = [user EXCEPT ![c] = NoDoc]
    /\ resp' = [resp EXCEPT ![c] = NoResp]
    /\ UNCHANGED <<strictQuery, users, callerVars>>

\* findOne resolves: 400 when a user was found, else the document is built
\* and the handler awaits save.
RegisterFound(c) ==
    /\ pc[c] = "find"
    /\ req[c].kind = "register"
    /\ LET existingUser == findOne(req[c].email) IN
         IF existingUser # NoDoc
         THEN /\ resp' = [resp EXCEPT ![c] =
                            [status |-> 400, message |-> "User already exists"]]
              /\ pc' = [pc EXCEPT ![c] = "done"]
              /\ user' = user
         ELSE /\ user' = [user EXCEPT ![c] = NewUser(req[c].name)]
              /\ pc' = [pc EXCEPT ![c] = "save"]
              /\ resp' = resp
    /\ UNCHANGED <<strictQuery, users, req, callerVars>>

\* save settles: it rejects with the validation error, which the catch
\* answers with 500, or it inserts the document and the handler answers 201
\* with a token.  (email, role and organization of the body are undefined on
\* the document and left out of the answer; the error message is Mongoose's,
\* without its quote marks around the path.)
RegisterSaved(c) ==
    /\ pc[c] = "save"
    /\ validate(user[c]) = NoError => Len(users) < MaxUsers
    /\ IF validate(user[c]) # NoError
       THEN /\ resp' = [resp EXCEPT ![c] =
                          ServerError("User validation failed: name: Path name is required.")]
            /\ users' = users
       ELSE LET id == Len(users) + 1 IN
            /\ users' = Append(users, [_id |-> id, name |-> user[c].name])
            /\ resp' = [resp EXCEPT ![c] =
                          [status |-> 201, token |-> sign(id),
                           user |-> [id |-> id, name |-> user[c].name]]]
    /\ pc' = [pc EXCEPT ![c] = "done"]
    /\ UNCHANGED <<strictQuery, req, user, callerVars>>

\* POST /login arrives: the handler reads the body and awaits findOne.
LoginRequest(c, email, password) ==
    /\ pc[c] \in {"idle", "done"}
    /\ pc' = [pc EXCEPT ![c] = "find"]
    /\ req' = [req EXCEPT ![c] =
                 [kind |-> "login", email |-> email, password |-> password]]
    /\ user' = [user EXCEPT ![c] = NoDoc]
    /\ resp' = [resp EXCEPT ![c] = NoResp]
    /\ UNCHANGED <<strictQuery, users, callerVars>>

\* findOne resolves: 400 when no user was found; else the handler calls
\* user.comparePassword, which the schema does not define, and the TypeError
\* is answered by the catch with 500.  The lines after the call are never run.
LoginFound(c) ==
    /\ pc[c] = "find"
    /\ req[c].kind = "login"
    /\ LET found == findOne(req[c].email) IN
         /\ user' = [user EXCEPT ![c] = found]
         /\ resp' = [resp EXCEPT ![c] =
                       IF found = NoDoc
                       THEN [status |-> 400, message |-> "Invalid credentials"]
                       ELSE ServerError("user.comparePassword is not a function")]
    /\ pc' = [pc EXCEPT ![c] = "done"]
    /\ UNCHANGED <<strictQuery, users, req, callerVars>>

Next ==
    \/ \E c \in Clients, name \in NameInputs, email \in Emails, password \in Passwords :
          RegisterRequest(c, name, email, password)
    \/ \E c \in Clients : RegisterFound(c)
    \/ \E c \in Clients : RegisterSaved(c)
    \/ \E c \in Clients, email \in Emails, password \in Passwords :
          LoginRequest(c, email, password)
    \/ \E c \in Clients : LoginFound(c)

Spec == Init /\ [][Next]_vars

\* ------------------------------------------------------------ the claims

AllWhiteSpace(s) == \A i \in 1..Len(s) : s[i] \in WhiteSpace

NoWhiteSpace(s) == \A i \in 1..Len(s) : s[i] \notin WhiteSpace

\* r is s without its leading and trailing white space: a stretch of s that
\* starts and ends on other characters, with only white space around it.
IsStripOf(r, s) ==
    \E i, j \in 1..Len(s) :
        /\ i <= j
        /\ s[i] \notin WhiteSpace
        /\ s[j] \notin WhiteSpace
        /\ AllWhiteSpace(SubSeq(s, 1, i - 1))
        /\ AllWhiteSpace(SubSeq(s, j + 1, Len(s)))
        /\ r = SubSeq(s, i, j)

\* t is s with white space put before it and after it.
IsPadOf(t, s) ==
    \E i, j \in 1..Len(t) :
        /\ Len(t) = i + Len(s) + j
        /\ AllWhiteSpace(SubSeq(t, 1, i))
        /\ SubSeq(t, i + 1, i + Len(s)) = s
        /\ AllWhiteSpace(SubSeq(t, i + Len(s) + 1, Len(t)))

Returned(c) == vpc[c] = "returned"

Rejected == [ok |-> FALSE, error |-> RequiredError]

\* C1: a string with a character that is not white space validates, and the
\* outcome is that string without its leading and trailing white space; a
\* string with no white space at all comes back as it is.
C1_TrimmedOnSuccess ==
    \A c \in Callers :
        (Returned(c) /\ IsString(vin[c]) /\ ~AllWhiteSpace(vin[c].v)) =>
            /\ vout[c].ok
            /\ IsString(vout[c].name)
            /\ IsStripOf(vout[c].name.v, vin[c].v)
            /\ NoWhiteSpace(vin[c].v) => vout[c].name = vin[c]

C1_Witness ==
    \E c \in Callers :
        /\ Returned(c)
        /\ vin[c] = Str(<<" ", "a", "a", " ">>)
        /\ vout[c] = [ok |-> TRUE, name |-> Str(<<"a", "a">>)]

\* C2: a name that is omitted or null is rejected with the required error
\* of the path `name`; no value is put in its place.
C2_AbsentRejected ==
    \A c \in Callers :
        (Returned(c) /\ vin[c] \in {Undefined, Null}) =>
            /\ vout[c] = Rejected
            /\ vdoc[c].name = vin[c]

C2_Witness ==
    \E c, d \in Callers :
        /\ Returned(c) /\ vin[c] = Undefined /\ vout[c] = Rejected
        /\ Returned(d) /\ vin[d] = Null /\ vout[d] = Rejected

\* C3: the empty string and a string of white space only are rejected with
\* the required error of the path `name`.
C3_BlankRejected ==
    \A c \in Callers :
        (Returned(c) /\ IsString(vin[c]) /\ AllWhiteSpace(vin[c].v)) =>
            vout[c] = Rejected

C3_Witness ==
    \E c, d \in Callers :
        /\ Returned(c) /\ vin[c] = Str(<<>>) /\ vout[c] = Rejected
        /\ Returned(d) /\ vin[d] = Str(<<" ", "\t", " ">>) /\ vout[d] = Rejected

\* C4: a string and the same string with white space put around it have the
\* same outcome, and a name that validation returned validates to itself.
C4_PaddingAndIdempotence ==
    \A c, d \in Callers :
        (Returned(c) /\ Returned(d) /\ IsString(vin[c]) /\ IsString(vin[d])) =>
            /\ IsPadOf(vin[d].v, vin[c].v) => vout[d] = vout[c]
            /\ (vout[c].ok /\ vin[d] = vout[c].name) => vout[d] = vout[c]

C4_Witness ==
    \E c, d \in Callers :
        /\ Returned(c) /\ Returned(d)
        /\ vin[c] = Str(<<"a", "a">>)
        /\ vin[d] = Str(<<" ", "a", "a", "\t">>)
        /\ vout[c] = [ok |-> TRUE, name |-> Str(<<"a", "a">>)]
        /\ vout[d] = vout[c]

\* C6: a step of building or validating changes nothing but the caller's
\* own call: not the collection, not a handler, not another caller; and the
\* outcome it returns is the one any earlier call returned for that input.
C6_ValidationIsPure ==
    [][\A c \in Callers :
          vpc'[c] # vpc[c] =>
              /\ UNCHANGED <<strictQuery, users, handlerVars>>
              /\ \A d \in Callers \ {c} :
                    /\ UNCHANGED <<vpc[d], vin[d], vdoc[d], vout[d]>>
                    /\ (vpc'[c] = "returned" /\ Returned(d) /\ vin[d] = vin[c]) =>
                          vout'[c] = vout[d]]_vars

C6_Witness ==
    \E c, d \in Callers :
        /\ c # d
        /\ users # <<>>
        /\ Returned(c) /\ Returned(d)
        /\ vin[c] = Str(<<"\t", "a">>) /\ vin[d] = vin[c]
        /\ vout[c] = [ok |-> TRUE, name |-> Str(<<"a">>)]
        /\ vout[d] = vout[c]

\* A well-formed stored name: a string that is not empty and neither
\* starts nor ends with white space.
Normalized(v) ==
    /\ IsString(v)
    /\ Len(v.v) > 0
    /\ v.v[1] \notin WhiteSpace
    /\ v.v[Len(v.v)] \notin WhiteSpace

\* C5: every stored user has a name that is not empty and has no leading or
\* trailing white space.
C5_StoredNamesNormalized ==
    \A i \in 1..Len(users) : Normalized(users[i].name)

C5_Witness ==
    /\ Len(users) = 2
    /\ users[1].name = Str(<<"a">>)
    /\ users[2].name = Str(<<"a", " ", "a">>)
    /\ \E c, d \in Clients :
          /\ pc[c] = "done" /\ resp[c].status = 201
          /\ req[c].kind = "register"
          /\ req[c].name = Str(<<" ", "a", "\t">>)
          /\ pc[d] = "done" /\ resp[d].status = 500
          /\ req[d].kind = "register"
          /\ req[d].name = Str(<<" ", "\t">>)

\* The client's request is a register request in progress.
Registering(c) == req[c].kind = "register" /\ pc[c] \in {"find", "save"}

\* A register request the server answered 201: its user is stored.
Registered(d) ==
    pc[d] = "done" /\ req[d].kind = "register" /\ resp[d].status = 201

HasToken(r) == "token" \in DOMAIN r

\* C7: a register request with the email of a user registered before it is
\* answered 400 "User already exists"; no user is stored, no token issued.
C7_DuplicateEmailRejected ==
    [][\A c \in Clients :
          ( /\ Registering(c)
            /\ pc[c] = "find"
            /\ pc'[c] # "find"
            /\ \E d \in Clients \ {c} :
                  Registered(d) /\ req[d].email = req[c].email ) =>
              /\ resp'[c] = [status |-> 400, message |-> "User already exists"]
              /\ users' = users]_vars

\* C8: a login with the email of a registered user and another password is
\* answered 400 "Invalid credentials" without a token; a login answer carries
\* a token only for the email and password of a registered user.
C8_WrongPasswordRejected ==
    [][\A c \in Clients :
          (req[c].kind = "login" /\ pc[c] = "find" /\ pc'[c] = "done") =>
              /\ (\E d \in Clients \ {c} :
                     /\ Registered(d)
                     /\ req[d].email = req[c].email
                     /\ req[d].password # req[c].password) =>
                    resp'[c] = [status |-> 400, message |-> "Invalid credentials"]
              /\ HasToken(resp'[c]) =>
                    \E d \in Clients \ {c} :
                        /\ Registered(d)
                        /\ req[d].email = req[c].email
                        /\ req[d].password = req[c].password]_vars

\* A name the required rule rejects: omitted, null, empty, white space only.
BlankName(v) == ~IsString(v) \/ AllWhiteSpace(v.v)

\* C9 as stated: every register request with a blank name is answered 500
\* "Server error", with no token, and the stored users stay as they are.
C9_BlankNameAlways500 ==
    [][\A c \in Clients :
          (Registering(c) /\ BlankName(req[c].name) /\ pc'[c] # pc[c]) =>
              /\ users' = users
              /\ pc'[c] = "done" =>
                    /\ resp'[c].status = 500
                    /\ resp'[c].message = "Server error"
                    /\ ~HasToken(resp'[c])]_vars

\* C9 as amended: a register request with a blank name never stores a user,
\* is never answered 201 and gets no token; it is answered 500 "Server
\* error" when it reaches save, which it does when the check for an existing
\* user finds none, and 400 "User already exists" when the check finds one.
C9_BlankNameNeverStored ==
    [][\A c \in Clients :
          (Registering(c) /\ BlankName(req[c].name) /\ pc'[c] # pc[c]) =>
              /\ users' = users
              /\ ~HasToken(resp'[c])
              /\ resp'[c].status # 201
              /\ pc[c] = "save" =>
                    /\ pc'[c] = "done"
                    /\ resp'[c].status = 500
                    /\ resp'[c].message = "Server error"
              /\ (pc[c] = "find" /\ findOne(req[c].email) = NoDoc) =>
                    pc'[c] = "save"
              /\ (pc[c] = "find" /\ findOne(req[c].email) # NoDoc) =>
                    /\ pc'[c] = "done"
                    /\ resp'[c] = [status |-> 400, message |-> "User already exists"]]_vars

C9_Witness ==
    \E c \in Clients :
        /\ pc[c] = "done"
        /\ req[c].kind = "register"
        /\ req[c].name = Str(<<" ", "\t">>)
        /\ resp[c].status = 500
        /\ resp[c].message = "Server error"
        /\ users # <<>>

\* C10: no two register requests with the same email are both answered 201.
C10_OneUserPerEmail ==
    \A c, d \in Clients :
        (c # d /\ Registered(c) /\ Registered(d)) => req[c].email # req[d].email

====
